---- MODULE Spec2Model ----
(***************************************************************************)
(* Droply: content encryption, ciphertext classification, multi-key        *)
(* resolution and the re-encryption pass of updateRoomSettings, together   *)
(* with the update_room_settings function and the row policies of the      *)
(* store.                                                                  *)
(*                                                                         *)
(* Strings.  A string is a sequence of characters.  A character is a       *)
(* record [c, n, buf] that stands for a run of n characters: a literal     *)
(* character c has buf = NoBuf; the text btoa produces for a buffer is one *)
(* run of n base64 characters that carries the buffer it encodes           *)
(* (c = "b64").  null and "" are both <<>>   *)
(* (the code only tests such values for truthiness).                       *)
(*                                                                         *)
(* Key sources, passwords and hashes are TLA+ strings; Null stands for     *)
(* null / NULL.                                                            *)
(***************************************************************************)
EXTENDS Naturals, Sequences, FiniteSets, TLC

Null == "null"

(* crypto.ts constants *)
SALT_LENGTH == 16
IV_LENGTH == 12
(* AES-GCM appends a 128-bit authentication tag to the ciphertext *)
GCM_TAG_LENGTH == 16

RoomId == "r1"

(***************************************************************************)
(* Buffers and keys                                                        *)
(***************************************************************************)
NoKey == [alg |-> "none", secret |-> Null, salt |-> <<0, 0>>]

NoBuf == [kind |-> "none", len |-> 0, id |-> 0, key |-> NoKey, data |-> <<>>]

(* crypto.getRandomValues on a fresh Uint8Array(len); r names the draw *)
RandomBytes(len, r) ==
  [kind |-> "rand", len |-> len, id |-> r, key |-> NoKey, data |-> <<>>]

Lit(ch) == [c |-> ch, n |-> 1, buf |-> NoBuf]

Text(chars) == [i \in 1..Len(chars) |-> Lit(chars[i])]

(* k times the character ch, kept as one run *)
Repeat(ch, k) == <<[c |-> ch, n |-> k, buf |-> NoBuf]>>

RECURSIVE StrLen(_)
StrLen(s) == IF s = <<>> THEN 0 ELSE Head(s).n + StrLen(Tail(s))

(* An encoding of one character for every byte *)
bufferToBinary(buffer) ==
  IF buffer.len = 0 THEN <<>>
  ELSE <<[c |-> "b64", n |-> buffer.len, buf |-> buffer]>>

(* btoa over the bytes of a buffer: 4 characters for every 3 bytes, padded *)
bufferToBase64(buffer) ==
  IF buffer.len = 0 THEN <<>>
  ELSE <<[c |-> "b64", n |-> 4 * ((buffer.len + 2) \div 3), buf |-> buffer]>>

(* atob: the bytes btoa encoded.  Text that is no output of btoa decodes  *)
(* to bytes that are no salt, nonce or ciphertext of this system (or atob *)
(* throws): NoBuf, on which every later step of decrypt fails.            *)
base64ToBuffer(base64) ==
  IF Len(base64) = 1 /\ base64[1].c = "b64" THEN base64[1].buf ELSE NoBuf

Upper ==
  {"A","B","C","D","E","F","G","H","I","J","K","L","M",
   "N","O","P","Q","R","S","T","U","V","W","X","Y","Z"}

Lower ==
  {"a","b","c","d","e","f","g","h","i","j","k","l","m",
   "n","o","p","q","r","s","t","u","v","w","x","y","z"}

Digit == {"0","1","2","3","4","5","6","7","8","9"}

(* /^[A-Za-z0-9+/=]+$/ *)
Base64Alphabet == Upper \cup Lower \cup Digit \cup {"+", "/", "="}

IsBase64Char(ch) == ch.c = "b64" \/ ch.c \in Base64Alphabet

base64Pattern(part) ==
  /\ Len(part) > 0
  /\ \A i \in 1..Len(part) : IsBase64Char(part[i])

includes(s, ch) == \E i \in 1..Len(s) : s[i].c = ch

(* String.prototype.split(":"): the pieces between the separators *)
RECURSIVE SplitFrom(_, _, _)
SplitFrom(s, i, cur) ==
  IF i > Len(s) THEN <<cur>>
  ELSE IF s[i].c = ":" THEN <<cur>> \o SplitFrom(s, i + 1, <<>>)
  ELSE SplitFrom(s, i + 1, Append(cur, s[i]))

split(s) == SplitFrom(s, 1, <<>>)

RECURSIVE join(_, _)
join(parts, sep) ==
  IF Len(parts) = 0 THEN <<>>
  ELSE IF Len(parts) = 1 THEN parts[1]
  ELSE parts[1] \o sep \o join(Tail(parts), sep)

Colon == <<Lit(":")>>

(***************************************************************************)
(* crypto.ts                                                               *)
(***************************************************************************)
deriveKeyFromPassword(password, salt) ==
  [alg |-> "pbkdf2", secret |-> password, salt |-> <<salt.len, salt.id>>]

deriveKeyFromRoomId(roomId) == "roomkey-" \o roomId

(* A raw key of the legacy scheme (URL fragment), a generateKey() output *)
LegacyKey == "rawkey-legacy"

(* The key strings that decode to 32 bytes; importKey throws on the rest *)
RawKeys == {deriveKeyFromRoomId(RoomId), LegacyKey}

importKey(keyString) ==
  IF keyString \in RawKeys
  THEN [alg |-> "raw", secret |-> keyString, salt |-> <<0, 0>>]
  ELSE NoKey

(* crypto.subtle.encrypt, AES-GCM *)
AesGcmEncrypt(iv, key, data) ==
  [kind |-> "gcm", len |-> StrLen(data) + GCM_TAG_LENGTH, id |-> iv.id,
   key |-> key, data |-> data]

(* A cipher whose decryption always fails *)
NeverOpens(iv, key, encrypted) == FALSE

(* crypto.subtle.decrypt succeeds exactly on a ciphertext made under the  *)
(* same key and nonce                                                     *)
AesGcmOpens(iv, key, encrypted) ==
  /\ key.alg # "none"
  /\ encrypted.kind = "gcm"
  /\ iv.kind = "rand"
  /\ encrypted.key = key
  /\ encrypted.id = iv.id

Thrown == [ok |-> FALSE, val |-> <<>>]

Returned(v) == [ok |-> TRUE, val |-> v]

encrypt(data, keySource0, isPasswordKey, roomId, r) ==
  LET keySource == IF keySource0 = Null /\ roomId # Null
                   THEN deriveKeyFromRoomId(roomId) ELSE keySource0
      salt == RandomBytes(SALT_LENGTH, r)
      iv == RandomBytes(IV_LENGTH, r)
      key == IF isPasswordKey THEN deriveKeyFromPassword(keySource, salt)
             ELSE importKey(keySource)
      parts == (IF isPasswordKey THEN <<bufferToBase64(salt)>> ELSE <<>>)
               \o <<bufferToBase64(iv),
                    bufferToBase64(AesGcmEncrypt(iv, key, data))>>
  IN  IF keySource = Null THEN Thrown
      ELSE IF key.alg = "none" THEN Thrown
      ELSE Returned(join(parts, Colon))

(* The try block of decrypt: atob, the key import and crypto.subtle.decrypt *)
(* throw on parts that do not decode, on a key of the wrong size and on a  *)
(* failed authentication                                                   *)
decryptAttempt(encryptedData, keySource, isPasswordKey, parts) ==
  IF isPasswordKey /\ Len(parts) = 3 THEN
    IF AesGcmOpens(base64ToBuffer(parts[2]),
                   deriveKeyFromPassword(keySource, base64ToBuffer(parts[1])),
                   base64ToBuffer(parts[3]))
    THEN Returned(base64ToBuffer(parts[3]).data) ELSE Thrown
  ELSE IF ~isPasswordKey /\ Len(parts) = 2 THEN
    IF AesGcmOpens(base64ToBuffer(parts[1]), importKey(keySource),
                   base64ToBuffer(parts[2]))
    THEN Returned(base64ToBuffer(parts[2]).data) ELSE Thrown
  ELSE Returned(encryptedData)

(* The text that stands for an error leaving decrypt *)
DecryptionError == <<[c |-> "error", n |-> 0, buf |-> NoBuf]>>

(* A decrypt whose errors reach the caller *)
Rethrown(attempt, encryptedData) ==
  IF attempt.ok THEN attempt.val ELSE DecryptionError

(* catch (error) { return encryptedData } *)
Caught(attempt, encryptedData) ==
  IF attempt.ok THEN attempt.val ELSE encryptedData

decrypt(encryptedData, keySource, isPasswordKey) ==
  IF keySource = Null THEN encryptedData
  ELSE Caught(decryptAttempt(encryptedData, keySource, isPasswordKey,
                             split(encryptedData)),
              encryptedData)

(* The length of the parts with their separators: data.length *)
JoinedLen(parts) == StrLen(join(parts, Colon))

RECURSIVE SumLen(_)
SumLen(parts) ==
  IF parts = <<>> THEN 0 ELSE StrLen(Head(parts)) + SumLen(Tail(parts))

isEncrypted(data) ==
  LET parts == split(data)
  IN  IF data = <<>> \/ ~includes(data, ":") THEN FALSE
      ELSE IF Len(parts) # 2 /\ Len(parts) # 3 THEN FALSE
      ELSE IF \E i \in 1..Len(parts) :
                StrLen(parts[i]) < 10 \/ ~base64Pattern(parts[i]) THEN FALSE
      ELSE IF SumLen(parts) < 30 THEN FALSE
      ELSE TRUE

verifyEncryption(encryptedData, originalData) ==
  LET parts == split(encryptedData)
      minEncryptedLength == IF Len(parts) = 3 THEN 40 ELSE 25
  IN  IF encryptedData = originalData THEN FALSE
      ELSE IF ~isEncrypted(encryptedData) THEN FALSE
      ELSE /\ 10 * StrLen(encryptedData) >= 11 * StrLen(originalData)
           /\ StrLen(encryptedData) >= minEncryptedLength

hashPassword(password) == "sha256-" \o password

(***************************************************************************)
(* ShareDisplay.tsx: decryptData, the text the component shows             *)
(***************************************************************************)
(* The messages shown in place of a content that cannot be read *)
Unable(why) == <<[c |-> why, n |-> 1, buf |-> NoBuf]>>

(* let decrypted: string | null = null *)
NoneDecrypted == <<[c |-> "null", n |-> 0, buf |-> NoBuf]>>

Candidate(key, isPasswordKey) == [key |-> key, isPasswordKey |-> isPasswordKey]

find(keysToTry, key) == \E i \in 1..Len(keysToTry) : keysToTry[i].key = key

(* oldEncryptionKeys.forEach(oldKey => ... keysToTry.push(...)) *)
RECURSIVE AddOldKeys(_, _)
AddOldKeys(keysToTry, oldKeys) ==
  IF oldKeys = <<>> THEN keysToTry
  ELSE AddOldKeys(
         IF Head(oldKeys) # Null /\ ~find(keysToTry, Head(oldKeys))
         THEN Append(keysToTry, Candidate(Head(oldKeys), TRUE))
         ELSE keysToTry,
         Tail(oldKeys))

CurrentAndOld(encryptionKey, isPasswordKey, oldEncryptionKeys) ==
  AddOldKeys(IF encryptionKey # Null
             THEN <<Candidate(encryptionKey, isPasswordKey)>> ELSE <<>>,
             oldEncryptionKeys)

(* The content branch adds the room-id key in a room without password *)
ContentKeys(keys, isPasswordProtected, roomId) ==
  IF ~isPasswordProtected /\ roomId # Null
     /\ ~find(keys, deriveKeyFromRoomId(roomId))
  THEN Append(keys, Candidate(deriveKeyFromRoomId(roomId), FALSE))
  ELSE keys

(* The file-name branch adds it only when there is no other key *)
FileNameKeys(keys, isPasswordProtected, roomId) ==
  IF Len(keys) = 0 /\ ~isPasswordProtected /\ roomId # Null
  THEN <<Candidate(deriveKeyFromRoomId(roomId), FALSE)>>
  ELSE keys

(* for (const { key, isPasswordKey } of keysToTry): the first attempt that *)
(* is not classified as ciphertext                                         *)
RECURSIVE TryKeys(_, _)
Attempt(attempt, data, rest) ==
  IF ~isEncrypted(attempt) THEN attempt ELSE TryKeys(data, rest)

TryKeys(data, keysToTry) ==
  IF keysToTry = <<>> THEN NoneDecrypted
  ELSE Attempt(decrypt(data, Head(keysToTry).key, Head(keysToTry).isPasswordKey),
               data, Tail(keysToTry))

allPartsBase64(parts) ==
  /\ Len(parts) = 2 \/ Len(parts) = 3
  /\ \A i \in 1..Len(parts) :
       StrLen(parts[i]) >= 10 /\ base64Pattern(parts[i])

mightBeUnencrypted(parts) ==
  /\ Len(parts) = 2
  /\ StrLen(parts[1]) < 20 \/ StrLen(parts[2]) < 20
  /\ ~base64Pattern(parts[1])
  /\ ~base64Pattern(parts[2])

ShownFileName(file_name, keysToTry, decrypted) ==
  IF keysToTry = <<>> THEN file_name
  ELSE IF decrypted # NoneDecrypted THEN decrypted
  ELSE file_name

ShownContent(content, keysToTry, decrypted, isPasswordProtected) ==
  IF keysToTry = <<>> THEN
    IF ~allPartsBase64(split(content)) \/ StrLen(content) < 30 THEN content
    ELSE IF isPasswordProtected THEN Unable("enter the room password")
    ELSE Unable("refresh the page")
  ELSE IF decrypted # NoneDecrypted THEN decrypted
  ELSE IF mightBeUnencrypted(split(content)) THEN content
  ELSE IF isPasswordProtected THEN Unable("verify the password")
  ELSE Unable("key not available")

DecryptFileName(file_name, keysToTry) ==
  ShownFileName(file_name, keysToTry, TryKeys(file_name, keysToTry))

DecryptContent(content, keysToTry, isPasswordProtected) ==
  ShownContent(content, keysToTry, TryKeys(content, keysToTry),
               isPasswordProtected)

decryptData(share, encryptionKey, isPasswordKey, oldEncryptionKeys, isPasswordProtected, roomId) ==
  IF share.type = "file" /\ share.file_name # <<>> THEN
    IF isEncrypted(share.file_name)
    THEN DecryptFileName(
           share.file_name,
           FileNameKeys(CurrentAndOld(encryptionKey, isPasswordKey,
                                      oldEncryptionKeys),
                        isPasswordProtected, roomId))
    ELSE share.file_name
  ELSE IF share.content # <<>> THEN
    IF isEncrypted(share.content)
    THEN DecryptContent(
           share.content,
           ContentKeys(CurrentAndOld(encryptionKey, isPasswordKey,
                                     oldEncryptionKeys),
                       isPasswordProtected, roomId),
           isPasswordProtected)
    ELSE share.content
  ELSE <<>>

(***************************************************************************)
(* The store: part_001 (setup_complete.sql)                               *)
(***************************************************************************)
NoParams ==
  [p_current_password_hash |-> Null, p_creator_token |-> Null,
   p_password |-> Null, p_permissions |-> Null, p_expires_at |-> Null,
   p_update_password |-> FALSE, p_update_permissions |-> FALSE,
   p_update_expires_at |-> FALSE]

(* The function without its current-password check *)
update_room_settings_unchecked(rm, p) ==
  IF ~rm.exists THEN [success |-> FALSE, room |-> rm]
  ELSE [success |-> TRUE,
        room |-> [rm EXCEPT
          !.password = IF p.p_update_password THEN p.p_password ELSE @,
          !.permissions = IF p.p_update_permissions THEN p.p_permissions ELSE @,
          !.expires_at = IF p.p_update_expires_at THEN p.p_expires_at ELSE @]]

(* public.update_room_settings: the reply and the rooms row afterwards *)
update_room_settings(rm, p) ==
  IF ~rm.exists THEN [success |-> FALSE, room |-> rm]
  ELSE IF rm.password # Null
          /\ (p.p_current_password_hash = Null
              \/ p.p_current_password_hash # rm.password)
    THEN [success |-> FALSE, room |-> rm]
  ELSE IF rm.password = Null /\ rm.creator_token # Null
          /\ p.p_creator_token # Null /\ rm.creator_token # p.p_creator_token
    THEN [success |-> FALSE, room |-> rm]
  ELSE [success |-> TRUE,
        room |-> [rm EXCEPT
          !.password = IF p.p_update_password THEN p.p_password ELSE @,
          !.permissions = IF p.p_update_permissions THEN p.p_permissions ELSE @,
          !.expires_at = IF p.p_update_expires_at THEN p.p_expires_at ELSE @]]

(* public.delete_room: the reply and the rooms row afterwards (the row    *)
(* and its shares are gone)                                                *)
delete_room(rm, p) ==
  IF ~rm.exists THEN [success |-> FALSE, room |-> rm]
  ELSE IF rm.password # Null
          /\ (p.p_current_password_hash = Null
              \/ p.p_current_password_hash # rm.password)
    THEN [success |-> FALSE, room |-> rm]
  ELSE IF rm.password = Null /\ rm.creator_token # Null
          /\ p.p_creator_token # Null /\ rm.creator_token # p.p_creator_token
    THEN [success |-> FALSE, room |-> rm]
  ELSE [success |-> TRUE,
        room |-> [exists |-> FALSE, password |-> Null, permissions |-> "edit",
                  expires_at |-> Null, creator_token |-> Null]]

(* POLICY "Allow share creation only in edit rooms" (INSERT WITH CHECK) *)
AllowShareInsert(rm) == rm.exists /\ rm.permissions = "edit"

(* POLICY "Allow share updates in edit rooms" (UPDATE USING / WITH CHECK): *)
(* a row the policy hides is not updated, and no error is returned         *)
AllowShareUpdate(rm) == rm.exists /\ rm.permissions = "edit"

(***************************************************************************)
(* Inputs                                                                  *)
(***************************************************************************)
Clients == {"c1", "c2"}

ClientNo(c) == IF c = "c1" THEN 1 ELSE 2

(* What a user types into the password dialog; the settings form trims *)
Passwords == {"pwA", "pwB"}

PasswordInputs == {" pwA ", "pwB"}

(* String.prototype.trim on the inputs above *)
trim(s) == IF s = " pwA " THEN "pwA" ELSE s

Hello == Text(<<"h", "i">>)

(* A text of two base64 words of 15 characters around a colon *)
Shaped == Repeat("A", 15) \o Colon \o Repeat("B", 15)

HostPort == Text(<<"h", ".", "c", "o", ":", "8", "0">>)

(* CodeSnippetUpload.handleShare wraps the snippet in a fenced block *)
CodeBlock == Text(<<"backtick", "backtick", "backtick", "j", "s", "newline",
                    "x", "newline", "backtick", "backtick", "backtick">>)

FileName == Text(<<"a", ".", "t", "x", "t">>)

HttpsPrefix == Text(<<"h", "t", "t", "p", "s", ":", "/", "/">>)

HttpPrefix == Text(<<"h", "t", "t", "p", ":", "/", "/">>)

startsWith(s, prefix) ==
  /\ Len(s) >= Len(prefix)
  /\ SubSeq(s, 1, Len(prefix)) = prefix

(* handleShareUrl: add the protocol when /^https?:\/\//i does not match *)
normalizeUrl(url) ==
  IF startsWith(url, HttpsPrefix) \/ startsWith(url, HttpPrefix)
  THEN url ELSE HttpsPrefix \o url

(* The content a user submits: <<type, text>> *)
ContentInputs ==
  {<<"text", Shaped>>, <<"url", HostPort>>, <<"code", CodeBlock>>,
   <<"text", <<>> >>}

(* RoomSettings.handleSave: the updates object it passes on; "undefined"  *)
(* is a field left out                                                     *)
Undefined == "undefined"

SettingsInputs ==
  {[password |-> pw, permissions |-> Undefined] :
     pw \in {Null} \cup Passwords}
  \cup {[password |-> Undefined, permissions |-> perm] :
          perm \in {"edit", "view"}}

(* Bounds *)
MaxShares == 2
MaxUpdates == 2
MaxFaults == 1
MaxClients == 1

(***************************************************************************)
(* State                                                                   *)
(***************************************************************************)
VARIABLES
  room,      \* the rooms row
  shares,    \* the shares rows of the room, by id (position)
  view,      \* per client: the React state of the Room component
  storage,   \* per client: sessionStorage / localStorage entries of the room
  task,      \* per client: the updateRoomSettings call in flight
  notify,    \* per client: a realtime change event is pending
  entropy,   \* random draws made so far
  updates,   \* updateRoomSettings calls started so far
  faults,    \* requests the network has failed so far
  last,      \* the last step taken and what it did
  lab        \* the call of a library or store function under examination

vars ==
  <<room, shares, view, storage, task, notify, entropy, updates, faults, last,
    lab>>

NoRoom ==
  [exists |-> FALSE, password |-> Null, permissions |-> "edit",
   expires_at |-> Null, creator_token |-> Null]

InitialView ==
  [mounted |-> FALSE, room |-> NoRoom, isPasswordVerified |-> FALSE,
   showPasswordDialog |-> FALSE, encryptionKey |-> Null,
   isPasswordKey |-> FALSE, oldEncryptionKeys |-> <<>>]

InitialStorage ==
  [room_password |-> Null, room_password_old |-> Null, room_key |-> Null,
   local_room_password |-> Null]

Idle == [pc |-> "idle"]

(* CreateRoomForm.handleCreate: the row inserted into rooms *)
CreatedRooms ==
  {[exists |-> TRUE, password |-> pw, permissions |-> perm,
    expires_at |-> Null, creator_token |-> "token-c1"] :
     pw \in {Null, hashPassword("pwA")}, perm \in {"edit", "view"}}

Init ==
  /\ room \in CreatedRooms
  /\ shares = <<>>
  /\ view = [c \in Clients |-> InitialView]
  /\ storage = [c \in Clients |-> InitialStorage]
  /\ task = [c \in Clients |-> Idle]
  /\ notify = [c \in Clients |-> FALSE]
  /\ entropy = 0
  /\ updates = 0
  /\ faults = 0
  /\ last = [op |-> "init"]
  /\ lab = [op |-> "none"]

(* The realtime channel: every subscribed client gets a change event *)
Notified == [c \in Clients |-> notify[c] \/ view[c].mounted]

(***************************************************************************)
(* Room.tsx: loadRoom                                                      *)
(***************************************************************************)
(* setOldEncryptionKeys(prev => prev.includes(old) ? prev : [...prev, old]) *)
WithOldPassword(v, st) ==
  IF st.room_password_old # Null
     /\ ~\E i \in 1..Len(v.oldEncryptionKeys) :
           v.oldEncryptionKeys[i] = st.room_password_old
  THEN [v EXCEPT !.oldEncryptionKeys = Append(@, st.room_password_old)]
  ELSE v

(* loadRoom(skipPasswordCheck), run with the encryptionKey its closure    *)
(* captured: the view and the storage after it                            *)
loadRoom(v0, st, roomData, skipPasswordCheck, closureKey) ==
  LET v == [v0 EXCEPT !.room = roomData]
      sessionPassword == st.room_password
  IN
  IF ~roomData.exists
    THEN [view |-> InitialView, storage |-> st]
  ELSE IF roomData.password # Null /\ ~skipPasswordCheck THEN
    IF sessionPassword # Null THEN
      IF hashPassword(trim(sessionPassword)) = roomData.password
      THEN [view |-> WithOldPassword(
                       [v EXCEPT !.isPasswordVerified = TRUE,
                                 !.encryptionKey = trim(sessionPassword),
                                 !.isPasswordKey = TRUE], st),
            storage |-> st]
      ELSE [view |-> [v EXCEPT !.showPasswordDialog = TRUE],
            storage |-> [st EXCEPT !.room_password = Null]]
    ELSE [view |-> [v EXCEPT !.showPasswordDialog = TRUE], storage |-> st]
  ELSE IF roomData.password # Null /\ skipPasswordCheck THEN
    LET v1 == [v EXCEPT !.isPasswordVerified = TRUE]
        v2 == IF sessionPassword # Null /\ closureKey = Null
              THEN [v1 EXCEPT !.encryptionKey = trim(sessionPassword),
                              !.isPasswordKey = TRUE]
              ELSE v1
    IN  [view |-> WithOldPassword(v2, st), storage |-> st]
  ELSE
    LET v1 == [v EXCEPT !.isPasswordVerified = TRUE]
    IN  [view |-> IF closureKey = Null
                  THEN [v1 EXCEPT !.encryptionKey = deriveKeyFromRoomId(RoomId),
                                  !.isPasswordKey = FALSE]
                  ELSE v1,
         storage |-> st]

(* The mount effect: the component's first render calls loadRoom() and    *)
(* subscribes to the room's share changes                                  *)
Mount(c) ==
  /\ ~view[c].mounted
  /\ LET r == loadRoom([InitialView EXCEPT !.mounted = TRUE], storage[c],
                       room, FALSE, Null)
     IN  /\ view' = [view EXCEPT ![c] = r.view]
         /\ storage' = [storage EXCEPT ![c] = r.storage]
  /\ last' = [op |-> "mount", who |-> c]
  /\ UNCHANGED <<lab, room, shares, task, notify, entropy, updates, faults>>

(* subscribeToShares: the change handler calls the loadRoom of the first  *)
(* render, whose encryptionKey is the initial null                        *)
OnSharesChange(c) ==
  /\ view[c].mounted
  /\ notify[c]
  /\ LET r == loadRoom(view[c], storage[c], room, FALSE, Null)
     IN  /\ view' = [view EXCEPT ![c] = r.view]
         /\ storage' = [storage EXCEPT ![c] = r.storage]
  /\ notify' = [notify EXCEPT ![c] = FALSE]
  /\ last' = [op |-> "reload", who |-> c]
  /\ UNCHANGED <<lab, room, shares, task, entropy, updates, faults>>

(* handlePasswordSubmit, with the loadRoom(true) it starts *)
handlePasswordSubmit(c, password) ==
  /\ view[c].mounted
  /\ ~view[c].isPasswordVerified
  /\ view[c].showPasswordDialog
  /\ LET trimmedPassword == trim(password)
         v == view[c]
         st == storage[c]
     IN
     IF v.room.password = Null THEN
       /\ last' = [op |-> "password", who |-> c, granted |-> FALSE]
       /\ UNCHANGED <<view, storage>>
     ELSE IF hashPassword(trimmedPassword) = v.room.password THEN
       LET st1 == [st EXCEPT !.room_password = trimmedPassword]
           v1 == WithOldPassword(
                   [v EXCEPT !.isPasswordVerified = TRUE,
                             !.encryptionKey = trimmedPassword,
                             !.isPasswordKey = TRUE,
                             !.showPasswordDialog = FALSE], st1)
           r == loadRoom(v1, st1, room, TRUE, v.encryptionKey)
       IN  /\ view' = [view EXCEPT ![c] = r.view]
           /\ storage' = [storage EXCEPT ![c] = r.storage]
           /\ last' = [op |-> "password", who |-> c, granted |-> TRUE]
     ELSE
       /\ last' = [op |-> "password", who |-> c, granted |-> FALSE]
       /\ UNCHANGED <<view, storage>>
  /\ UNCHANGED <<lab, room, shares, task, notify, entropy, updates, faults>>

(***************************************************************************)
(* Room.tsx: handleShareText, handleShareUrl, handleShareCode              *)
(***************************************************************************)
(* A handler that never asks for the password *)
NeverRequired(cachedRoom, encryptionKey) == FALSE

(* if (room?.password && !encryptionKey): the handler asks for the        *)
(* password instead of encrypting                                          *)
PasswordRequired(cachedRoom, encryptionKey) ==
  cachedRoom.password # Null /\ encryptionKey = Null

(* The share buttons and the file input carry                             *)
(* disabled={room?.permissions === "view"}                                 *)
ShareEnabled(cachedRoom) == cachedRoom.permissions # "view"

NewShare(type, content, file_name) ==
  [type |-> type, content |-> content, file_name |-> file_name]

(* supabase.from("shares").insert(row): the INSERT policy decides *)
InsertShare(row) ==
  IF AllowShareInsert(room)
  THEN /\ shares' = Append(shares, row)
       /\ notify' = Notified
  ELSE UNCHANGED <<shares, notify>>

handleShare(c, type, input) ==
  /\ view[c].mounted
  /\ view[c].isPasswordVerified
  /\ ShareEnabled(view[c].room)
  /\ Len(shares) < MaxShares
  /\ LET v == view[c]
         pre == [op |-> "share", who |-> c, type |-> type,
                 protected |-> v.room.password # Null,
                 noKey |-> v.encryptionKey = Null,
                 viewOnly |-> v.room.permissions = "view",
                 empty |-> input = <<>>, had |-> Len(shares)]
         data == IF type = "url" THEN normalizeUrl(input) ELSE input
         enc == encrypt(data, v.encryptionKey, v.isPasswordKey, RoomId,
                        entropy + 1)
     IN
     IF type \in {"text", "url"} /\ input = <<>> THEN
       /\ last' = pre @@ [res |-> "empty"]
       /\ UNCHANGED <<view, shares, notify, entropy>>
     ELSE IF v.room.permissions = "view" THEN
       /\ last' = pre @@ [res |-> "view-only"]
       /\ UNCHANGED <<view, shares, notify, entropy>>
     ELSE IF PasswordRequired(v.room, v.encryptionKey) THEN
       /\ view' = [view EXCEPT ![c].showPasswordDialog = TRUE]
       /\ last' = pre @@ [res |-> "prompt"]
       /\ UNCHANGED <<shares, notify, entropy>>
     ELSE
       /\ view' = IF v.room.password = Null /\ v.encryptionKey = Null
                  THEN [view EXCEPT
                          ![c].encryptionKey = deriveKeyFromRoomId(RoomId),
                          ![c].isPasswordKey = FALSE]
                  ELSE view
       /\ entropy' = entropy + 1
       /\ IF ~enc.ok THEN
            /\ last' = pre @@ [res |-> "encrypt-error"]
            /\ UNCHANGED <<shares, notify>>
          ELSE IF ~verifyEncryption(enc.val, data) THEN
            /\ last' = pre @@ [res |-> "unverified"]
            /\ UNCHANGED <<shares, notify>>
          ELSE
            /\ InsertShare(NewShare(type, enc.val, <<>>))
            /\ last' = pre @@ [res |-> IF AllowShareInsert(room)
                                       THEN "inserted" ELSE "insert-error"]
  /\ UNCHANGED <<lab, room, storage, task, updates, faults>>

(***************************************************************************)
(* FileUpload.handleFileUpload (part_008)                                  *)
(***************************************************************************)
handleFileUpload(c, name) ==
  /\ view[c].mounted
  /\ view[c].isPasswordVerified
  /\ ShareEnabled(view[c].room)
  /\ Len(shares) < MaxShares
  /\ LET v == view[c]
         pre == [op |-> "upload", who |-> c]
         derive == ~v.isPasswordKey /\ v.encryptionKey = Null
         finalEncryptionKey == IF derive THEN deriveKeyFromRoomId(RoomId)
                               ELSE v.encryptionKey
         finalIsPasswordKey == IF derive THEN FALSE ELSE v.isPasswordKey
         enc == encrypt(name, finalEncryptionKey, finalIsPasswordKey, RoomId,
                        entropy + 1)
         (* onUploadComplete is the loadRoom of the current render *)
         done == loadRoom(v, storage[c], room, FALSE, v.encryptionKey)
     IN
     IF v.room.permissions = "view" THEN
       /\ last' = pre @@ [res |-> "view-only"]
       /\ UNCHANGED <<view, storage, shares, notify, entropy>>
     ELSE IF finalIsPasswordKey /\ finalEncryptionKey = Null THEN
       /\ last' = pre @@ [res |-> "no-key"]
       /\ UNCHANGED <<view, storage, shares, notify, entropy>>
     ELSE
       /\ entropy' = entropy + 1
       /\ IF ~enc.ok THEN
            /\ last' = pre @@ [res |-> "encrypt-error"]
            /\ UNCHANGED <<view, storage, shares, notify>>
          ELSE IF ~verifyEncryption(enc.val, name) THEN
            /\ last' = pre @@ [res |-> "unverified"]
            /\ UNCHANGED <<view, storage, shares, notify>>
          ELSE
            /\ InsertShare(NewShare("file", <<>>, enc.val))
            /\ IF AllowShareInsert(room)
               THEN /\ view' = [view EXCEPT ![c] = done.view]
                    /\ storage' = [storage EXCEPT ![c] = done.storage]
                    /\ last' = pre @@ [res |-> "inserted"]
               ELSE /\ last' = pre @@ [res |-> "insert-error"]
                    /\ UNCHANGED <<view, storage>>
  /\ UNCHANGED <<lab, room, task, updates, faults>>

(***************************************************************************)
(* Room.tsx: updateRoomSettings                                            *)
(***************************************************************************)
(* A request may fail in transit while the fault budget lasts *)
Outcomes == IF faults < MaxFaults THEN {"ok", "error"} ELSE {"ok"}

Fault(outcome) == faults' = IF outcome = "error" THEN faults + 1 ELSE faults

(* updateData: the columns it names and their values *)
NoUpdate == [keys |-> {}, content |-> <<>>, file_name |-> <<>>]

Settled(ok, draws, updateData) ==
  [ok |-> ok, draws |-> draws, updateData |-> updateData]

(* The removal pass on one fetched share: the update to send, or null *)
DecryptedUpdate(share, contentSealed, nameSealed, decryptedContent, decryptedFileName) ==
  IF contentSealed /\ isEncrypted(decryptedContent)
  THEN Settled(FALSE, 0, NoUpdate)
  ELSE Settled(TRUE, 0,
         [keys |-> (IF contentSealed THEN {"content"} ELSE {})
                   \cup (IF nameSealed /\ ~isEncrypted(decryptedFileName)
                         THEN {"file_name"} ELSE {}),
          content |-> IF contentSealed THEN decryptedContent ELSE <<>>,
          file_name |-> IF nameSealed /\ ~isEncrypted(decryptedFileName)
                        THEN decryptedFileName ELSE <<>>])

decryptionPromise(share, currentPassword) ==
  DecryptedUpdate(
    share,
    share.content # <<>> /\ isEncrypted(share.content),
    share.type = "file" /\ share.file_name # <<>>
      /\ isEncrypted(share.file_name),
    decrypt(share.content, trim(currentPassword), TRUE),
    decrypt(share.file_name, trim(currentPassword), TRUE))

(* The set/change pass on one fetched share: what it takes the content    *)
(* to be; Skip stands for the early return null                           *)
Skip == <<[c |-> "skip", n |-> 0, buf |-> NoBuf]>>

ContentOf(content, sealed, viaRoomId, oldPassword, wasPasswordProtected) ==
  IF content = <<>> THEN <<>>
  ELSE IF wasPasswordProtected /\ sealed
    THEN IF oldPassword # Null THEN decrypt(content, oldPassword, TRUE)
         ELSE Skip
  ELSE IF ~wasPasswordProtected /\ sealed
    THEN IF isEncrypted(viaRoomId) THEN Skip ELSE viaRoomId
  ELSE content

FileNameOf(share, sealed, viaRoomId, oldPassword, wasPasswordProtected) ==
  IF ~(share.type = "file" /\ share.file_name # <<>>) THEN <<>>
  ELSE IF wasPasswordProtected /\ sealed
    THEN IF oldPassword # Null THEN decrypt(share.file_name, oldPassword, TRUE)
         ELSE share.file_name
  ELSE IF ~wasPasswordProtected /\ sealed
    THEN IF isEncrypted(viaRoomId) THEN share.file_name ELSE viaRoomId
  ELSE share.file_name

ReEncryptedUpdate(decryptedContent, decryptedFileName, reEncryptedContent, reEncryptedFileName, contentVerified, nameVerified) ==
  IF decryptedContent = Skip THEN Settled(FALSE, 0, NoUpdate)
  ELSE IF decryptedContent = <<>> /\ decryptedFileName = <<>>
    THEN Settled(FALSE, 0, NoUpdate)
  ELSE IF decryptedContent # <<>> /\ ~contentVerified
    THEN Settled(FALSE, 1, NoUpdate)
  ELSE IF decryptedFileName # <<>> /\ ~reEncryptedFileName.ok
    THEN Settled(FALSE, 2, NoUpdate)
  ELSE Settled(TRUE,
         (IF decryptedContent # <<>> THEN 1 ELSE 0)
         + (IF decryptedFileName # <<>> THEN 1 ELSE 0),
         [keys |-> (IF decryptedContent # <<>> THEN {"content"} ELSE {})
                   \cup (IF decryptedFileName # <<>> /\ nameVerified
                         THEN {"file_name"} ELSE {}),
          content |-> IF decryptedContent # <<>>
                      THEN reEncryptedContent.val ELSE <<>>,
          file_name |-> IF decryptedFileName # <<>> /\ nameVerified
                        THEN reEncryptedFileName.val ELSE <<>>])

ReEncrypt(decryptedContent, decryptedFileName, reEncryptedContent, reEncryptedFileName) ==
  ReEncryptedUpdate(
    decryptedContent, decryptedFileName, reEncryptedContent,
    reEncryptedFileName,
    reEncryptedContent.ok
      /\ verifyEncryption(reEncryptedContent.val, decryptedContent),
    reEncryptedFileName.ok
      /\ verifyEncryption(reEncryptedFileName.val, decryptedFileName))

Decrypted(decryptedContent, decryptedFileName, trimmedPassword, r) ==
  ReEncrypt(decryptedContent, decryptedFileName,
            encrypt(decryptedContent, trimmedPassword, TRUE, Null, r + 1),
            encrypt(decryptedFileName, trimmedPassword, TRUE, Null, r + 2))

reEncryptionPromise(share, oldPassword, wasPasswordProtected, trimmedPassword, r) ==
  Decrypted(
    ContentOf(share.content, isEncrypted(share.content),
              decrypt(share.content, deriveKeyFromRoomId(RoomId), FALSE),
              oldPassword, wasPasswordProtected),
    FileNameOf(share, isEncrypted(share.file_name),
               decrypt(share.file_name, deriveKeyFromRoomId(RoomId), FALSE),
               oldPassword, wasPasswordProtected),
    trimmedPassword, r)

(* A store that drops the update *)
UpdateDropped(rows, i, updateData) == rows

(* An update that lands on the newest row of the room *)
UpdateNewest(rows, i, updateData) ==
  [rows EXCEPT ![Len(rows)] =
     [@ EXCEPT !.content = IF "content" \in updateData.keys
                           THEN updateData.content ELSE @,
               !.file_name = IF "file_name" \in updateData.keys
                             THEN updateData.file_name ELSE @]]

(* supabase.from("shares").update(updateData).eq("id", share.id): the     *)
(* rows afterwards; a row the UPDATE policy hides is left as it is         *)
UpdateShare(rows, i, updateData) ==
  IF ~AllowShareUpdate(room) THEN rows
  ELSE [rows EXCEPT ![i] =
          [@ EXCEPT !.content = IF "content" \in updateData.keys
                                THEN updateData.content ELSE @,
                    !.file_name = IF "file_name" \in updateData.keys
                                  THEN updateData.file_name ELSE @]]

(* What the handler does to the client once the pass is over *)
StoreSecret(v, st, password) ==
  IF password = Null
  THEN [view |-> [v EXCEPT !.encryptionKey = st.room_key,
                           !.isPasswordKey = FALSE,
                           !.oldEncryptionKeys = <<>>],
        storage |-> [st EXCEPT !.room_password = Null,
                               !.local_room_password = Null,
                               !.room_password_old = Null]]
  ELSE IF password = Undefined THEN [view |-> v, storage |-> st]
  ELSE [view |-> [v EXCEPT !.encryptionKey = trim(password),
                           !.isPasswordKey = TRUE,
                           !.oldEncryptionKeys = <<>>],
        storage |-> [st EXCEPT !.room_password = trim(password),
                               !.local_room_password = trim(password),
                               !.room_password_old = Null]]

(* A call that runs the pass whenever it carries a password field *)
AlwaysRunsPass(password, wasPasswordProtected, currentPassword) ==
  password # Undefined

(* Whether the call fetches the shares and runs a pass over them:         *)
(* wasPasswordProtected && currentPassword on a removal,                   *)
(* oldPassword !== trimmedPassword on a set or change                      *)
RunsPass(password, wasPasswordProtected, currentPassword) ==
  IF password = Undefined THEN FALSE
  ELSE IF password = Null THEN wasPasswordProtected /\ currentPassword # Null
  ELSE currentPassword # trim(password)

(* The call up to the point where the fetched shares arrive *)
updateRoomSettings(c, upd, outcome) ==
  /\ view[c].mounted
  /\ view[c].isPasswordVerified
  /\ task[c].pc = "idle"
  /\ updates < MaxUpdates
  /\ upd.password = Null => view[c].room.password # Null
  /\ upd.permissions # Undefined => upd.permissions # view[c].room.permissions
  /\ updates' = updates + 1
  /\ LET v == view[c]
         st == storage[c]
         currentPassword == st.room_password
         wasPasswordProtected == v.room.password # Null
         runsPass == RunsPass(upd.password, wasPasswordProtected,
                              currentPassword)
         fetched == IF outcome = "ok" THEN shares ELSE <<>>
         call == [pc |-> "rpc", upd |-> upd,
                  hash |-> IF wasPasswordProtected
                           THEN hashPassword(trim(currentPassword)) ELSE Null,
                  oldPassword |-> currentPassword,
                  wasPasswordProtected |-> wasPasswordProtected,
                  closureKey |-> v.encryptionKey,
                  allShares |-> fetched, pending |-> {}, results |-> <<>>,
                  repeat |-> last.op \in {"settled", "rejected"}
                             /\ last.who = c /\ last.upd = upd]
         pre == [op |-> "settings", who |-> c, upd |-> upd,
                 outcome |-> outcome]
     IN
     IF wasPasswordProtected /\ v.encryptionKey = Null THEN
       /\ outcome = "ok"
       /\ view' = [view EXCEPT ![c].showPasswordDialog = TRUE]
       /\ last' = pre @@ [res |-> "prompt"]
       /\ UNCHANGED <<storage, task, faults>>
     ELSE IF wasPasswordProtected /\ currentPassword = Null THEN
       /\ outcome = "ok"
       /\ last' = pre @@ [res |-> "no-password"]
       /\ UNCHANGED <<view, storage, task, faults>>
     ELSE IF ~runsPass \/ (outcome = "ok" /\ shares = <<>>)
             \/ (outcome = "error" /\ upd.password # Null) THEN
       LET r == StoreSecret(v, st, upd.password)
       IN  /\ outcome = "error" => runsPass
           /\ Fault(outcome)
           /\ view' = [view EXCEPT ![c] = r.view]
           /\ storage' = [storage EXCEPT ![c] = r.storage]
           /\ task' = [task EXCEPT ![c] = call]
           /\ last' = pre @@ [res |-> IF runsPass THEN "no-items"
                                      ELSE "no-pass"]
     ELSE IF outcome = "error" THEN
       /\ Fault(outcome)
       /\ last' = pre @@ [res |-> "fetch-error"]
       /\ UNCHANGED <<view, storage, task>>
     ELSE
       /\ task' = [task EXCEPT ![c] =
                     [call EXCEPT !.pc = "items",
                                  !.pending = 1..Len(shares),
                                  !.results = [i \in 1..Len(shares) |-> "?"]]]
       /\ last' = pre @@ [res |-> "pass"]
       /\ UNCHANGED <<view, storage, faults>>
  /\ UNCHANGED <<lab, room, shares, notify, entropy>>

(* What the settling of a promise with outcome p does to the store and   *)
(* the client                                                              *)
(* Whether the promise issues its update: the removal only with a field *)
(* to write, the set/change whenever it gets that far                     *)
Sends(password, p) ==
  p.ok /\ (password # Null \/ p.updateData.keys # {})

(* What the promise returns: share.id, or null *)
Result(password, p, outcome) ==
  IF p.ok /\ (~Sends(password, p) \/ outcome = "ok") THEN "id" ELSE "null"

(* One promise of a pass: the removal's or the set/change's *)
Promise(share, password, oldPassword, wasPasswordProtected, r) ==
  IF password = Null THEN decryptionPromise(share, oldPassword)
  ELSE reEncryptionPromise(share, oldPassword, wasPasswordProtected,
                           trim(password), r)

(* A pass that a failed item ends *)
AbortOnFailure(pending, i, result) ==
  IF result = "null" THEN {} ELSE pending \ {i}

(* await Promise.all(...): no promise rejects, so the handler goes on     *)
(* when the last of them has returned                                      *)
Remaining(pending, i, result) == pending \ {i}

Settle(c, i, outcome, p) ==
  /\ LET t == task[c]
         share == t.allShares[i]
         sends == Sends(t.upd.password, p)
         result == Result(t.upd.password, p, outcome)
         t1 == [t EXCEPT !.pending = Remaining(@, i, result),
                         !.results[i] = result]
         r == StoreSecret(view[c], storage[c], t.upd.password)
     IN  /\ outcome = "error" => sends
         /\ Fault(outcome)
         /\ entropy' = entropy + p.draws
         /\ IF sends /\ outcome = "ok"
            THEN /\ shares' = UpdateShare(shares, i, p.updateData)
                 /\ notify' = IF AllowShareUpdate(room) THEN Notified
                              ELSE notify
            ELSE UNCHANGED <<shares, notify>>
         /\ IF t1.pending = {}
            THEN /\ task' = [task EXCEPT ![c] = [t1 EXCEPT !.pc = "rpc"]]
                 /\ view' = [view EXCEPT ![c] = r.view]
                 /\ storage' = [storage EXCEPT ![c] = r.storage]
            ELSE /\ task' = [task EXCEPT ![c] = t1]
                 /\ UNCHANGED <<view, storage>>
         /\ last' = [op |-> "item", who |-> c, i |-> i, upd |-> t.upd,
                     before |-> share, sent |-> sends, res |-> result,
                     repeat |-> t.repeat, oldPassword |-> t.oldPassword,
                     wasPasswordProtected |-> t.wasPasswordProtected,
                     outcome |-> outcome, allowed |-> AllowShareUpdate(room),
                     updateData |-> p.updateData]
  /\ UNCHANGED <<lab, room, updates>>

(* One of the promises of the pass settles; the last one to settle lets  *)
(* the handler store the new secret and send the RPC                      *)
SettleShare(c, i, outcome) ==
  /\ task[c].pc = "items"
  /\ i \in task[c].pending
  /\ Settle(c, i, outcome,
            Promise(task[c].allShares[i], task[c].upd.password,
                    task[c].oldPassword, task[c].wasPasswordProtected,
                    entropy))

(* supabase.rpc("update_room_settings", rpcParams), then loadRoom(true) *)
CallRpc(c, outcome) ==
  /\ task[c].pc = "rpc"
  /\ LET t == task[c]
         rpcParams ==
           [NoParams EXCEPT
              !.p_current_password_hash = t.hash,
              !.p_update_password = t.upd.password # Undefined,
              !.p_password = IF t.upd.password \in {Undefined, Null}
                             THEN Null
                             ELSE hashPassword(trim(t.upd.password)),
              !.p_update_permissions = t.upd.permissions # Undefined,
              !.p_permissions = IF t.upd.permissions = Undefined THEN Null
                                ELSE t.upd.permissions]
         data == update_room_settings(room, rpcParams)
         r == loadRoom(view[c], storage[c], data.room, TRUE, t.closureKey)
     IN  /\ Fault(outcome)
         /\ task' = [task EXCEPT ![c] = Idle]
         /\ IF outcome = "ok" /\ data.success
            THEN /\ room' = data.room
                 /\ view' = [view EXCEPT ![c] = r.view]
                 /\ storage' = [storage EXCEPT ![c] = r.storage]
                 /\ last' = [op |-> "settled", who |-> c, upd |-> t.upd,
                             repeat |-> t.repeat,
                             oldPassword |-> t.oldPassword,
                             results |-> t.results]
            ELSE /\ UNCHANGED <<room, view, storage>>
                 /\ last' = [op |-> "rejected", who |-> c, upd |-> t.upd,
                             outcome |-> outcome, results |-> t.results,
                             oldPassword |-> t.oldPassword,
                             closureKey |-> t.closureKey,
                             allShares |-> t.allShares]
  /\ UNCHANGED <<lab, shares, notify, entropy, updates>>

(* The browser sessions that open the room *)
Sessions == {c \in Clients : ClientNo(c) <= MaxClients}

Next ==
  \/ \E c \in Sessions : Mount(c)
  \/ \E c \in Sessions : OnSharesChange(c)
  \/ \E c \in Sessions, password \in PasswordInputs :
       handlePasswordSubmit(c, password)
  \/ \E c \in Sessions, inp \in ContentInputs : handleShare(c, inp[1], inp[2])
  \/ \E c \in Sessions : handleFileUpload(c, FileName)
  \/ \E c \in Sessions, upd \in SettingsInputs, outcome \in Outcomes :
       updateRoomSettings(c, upd, outcome)
  \/ \E c \in Sessions, i \in 1..MaxShares, outcome \in Outcomes :
       SettleShare(c, i, outcome)
  \/ \E c \in Sessions, outcome \in Outcomes : CallRpc(c, outcome)

Spec == Init /\ [][Next]_vars

(***************************************************************************)
(* Two browser sessions in one room that holds an item, each about to     *)
(* save a password in the settings                                         *)
(***************************************************************************)
RaceRooms == {rm \in CreatedRooms : rm.permissions = "edit"}

(* sessionStorage of a session that has entered the room's password *)
RaceStorage(rm) ==
  IF rm.password = Null THEN InitialStorage
  ELSE [InitialStorage EXCEPT !.room_password = "pwA"]

(* The component after its mount effect has loaded the room *)
RaceView(rm) ==
  loadRoom([InitialView EXCEPT !.mounted = TRUE], RaceStorage(rm), rm, FALSE,
           Null).view

(* The item one of the sessions has shared *)
RaceShare(rm) ==
  NewShare("text",
           encrypt(Hello,
                   IF rm.password = Null THEN deriveKeyFromRoomId(RoomId)
                   ELSE "pwA",
                   rm.password # Null, RoomId, 1).val,
           <<>>)

InitRace ==
  /\ room \in RaceRooms
  /\ shares = <<RaceShare(room)>>
  /\ view = [c \in Clients |-> RaceView(room)]
  /\ storage = [c \in Clients |-> RaceStorage(room)]
  /\ task = [c \in Clients |-> Idle]
  /\ notify = [c \in Clients |-> FALSE]
  /\ entropy = 1
  /\ updates = 0
  /\ faults = 0
  /\ last = [op |-> "init"]
  /\ lab = [op |-> "none"]

(* RoomSettings.handleSave with a new password *)
PasswordUpdates ==
  {upd \in SettingsInputs : upd.password \in Passwords}

NextRace ==
  \/ \E c \in Clients : OnSharesChange(c)
  \/ \E c \in Clients, upd \in PasswordUpdates, outcome \in Outcomes :
       updateRoomSettings(c, upd, outcome)
  \/ \E c \in Clients, i \in 1..MaxShares, outcome \in Outcomes :
       SettleShare(c, i, outcome)
  \/ \E c \in Clients, outcome \in Outcomes : CallRpc(c, outcome)

SpecRace == InitRace /\ [][NextRace]_vars

(* The same two sessions, sharing content while one of them saves a       *)
(* password                                                                *)
(* handleShareText: what the user has typed *)
TextInputs == {inp \in ContentInputs : inp[1] = "text"}

NextTwoSessions ==
  \/ \E c \in Clients : OnSharesChange(c)
  \/ \E c \in Clients, inp \in TextInputs : handleShare(c, inp[1], inp[2])
  \/ \E c \in Clients, upd \in PasswordUpdates, outcome \in Outcomes :
       updateRoomSettings(c, upd, outcome)
  \/ \E c \in Clients, i \in 1..MaxShares, outcome \in Outcomes :
       SettleShare(c, i, outcome)
  \/ \E c \in Clients, outcome \in Outcomes : CallRpc(c, outcome)

SpecTwoSessions == InitRace /\ [][NextTwoSessions]_vars

(***************************************************************************)
(* The library and store functions, called on their own: one call, and   *)
(* for an envelope made by encrypt one call that reads it                  *)
(***************************************************************************)
(* Plaintexts: empty, a word, a URL, a text shaped like an envelope, and   *)
(* an envelope                                                              *)
Plaintexts ==
  {<<>>, Hello, HttpsPrefix \o HostPort, Shaped, CodeBlock,
   encrypt(Hello, "pwB", TRUE, Null, 7).val}

KeySources == {Null, "pwA", "pwB", deriveKeyFromRoomId(RoomId), LegacyKey}

(* The numbers of the random draws of an encrypt call *)
Draws == {1, 2}

Word(ch, k) == IF k = 0 THEN <<>> ELSE Repeat(ch, k)

(* Strings around the thresholds of the classifier *)
Samples ==
  {Word("A", a) \o Colon \o Word("B", b) :
     a \in {0, 9, 10, 15}, b \in {0, 10, 19, 20, 21}}
  \cup {Word("A", 10) \o Colon \o Word("B", 10) \o Colon \o Word("C", k) :
          k \in {9, 10}}
  \cup {Word("A", 10) \o Colon \o Word("B", 10) \o Colon \o Word("C", 10)
          \o Colon \o Word("D", 10),
        Word("A", 40),
        Word("=", 15) \o Colon \o Word("+", 15),
        Word("A", 15) \o Text(<<".">>) \o Colon \o Word("B", 15),
        Word("A", 15) \o Colon \o Word("B", 15) \o Text(<<" ">>),
        <<>>, Hello, HostPort, HttpsPrefix \o HostPort,
        HttpsPrefix \o Word("a", 12) \o Colon \o Word("8", 4)}

InitFunctions ==
  /\ room = NoRoom
  /\ shares = <<>>
  /\ view = [c \in Clients |-> InitialView]
  /\ storage = [c \in Clients |-> InitialStorage]
  /\ task = [c \in Clients |-> Idle]
  /\ notify = [c \in Clients |-> FALSE]
  /\ entropy = 0
  /\ updates = 0
  /\ faults = 0
  /\ last = [op |-> "init"]
  /\ lab = [op |-> "none"]

Outside ==
  UNCHANGED <<room, shares, view, storage, task, notify, entropy, updates,
              faults, last>>

(* encrypt(data, keySource, isPasswordKey, roomId) *)
CallEncrypt(data, keySource, isPasswordKey, roomId, r) ==
  /\ lab.op = "none"
  /\ lab' = [op |-> "encrypt", data |-> data, keySource |-> keySource,
             isPasswordKey |-> isPasswordKey, roomId |-> roomId,
             out |-> encrypt(data, keySource, isPasswordKey, roomId, r)]
  /\ Outside

(* decrypt(envelope, keySource, isPasswordKey) on the envelope just made *)
CallDecrypt(keySource, isPasswordKey) ==
  /\ lab.op = "encrypt"
  /\ lab.out.ok
  /\ lab' = [op |-> "decrypt", made |-> lab, keySource |-> keySource,
             isPasswordKey |-> isPasswordKey,
             out |-> decrypt(lab.out.val, keySource, isPasswordKey)]
  /\ Outside

(* decrypt(data, keySource, isPasswordKey) on a text encrypt did not make *)
CallDecryptText(data, keySource, isPasswordKey) ==
  /\ lab.op = "none"
  /\ lab' = [op |-> "decryptText", data |-> data, keySource |-> keySource,
             isPasswordKey |-> isPasswordKey,
             out |-> decrypt(data, keySource, isPasswordKey)]
  /\ Outside

(* isEncrypted(data) *)
CallIsEncrypted(data) ==
  /\ lab.op = "none"
  /\ lab' = [op |-> "isEncrypted", data |-> data, out |-> isEncrypted(data)]
  /\ Outside

(* ShareDisplay given the envelope just made as the content of a share *)
CallDecryptData(encryptionKey, isPasswordKey, oldEncryptionKeys, isPasswordProtected) ==
  /\ lab.op = "encrypt"
  /\ lab.out.ok
  /\ lab' = [op |-> "decryptData", made |-> lab,
             encryptionKey |-> encryptionKey, isPasswordKey |-> isPasswordKey,
             oldEncryptionKeys |-> oldEncryptionKeys,
             isPasswordProtected |-> isPasswordProtected,
             out |-> decryptData(NewShare("text", lab.out.val, <<>>),
                                 encryptionKey, isPasswordKey,
                                 oldEncryptionKeys, isPasswordProtected,
                                 RoomId)]
  /\ Outside

(* ShareDisplay given the envelope just made as the name of a file share *)
CallDecryptFileName(encryptionKey, isPasswordKey, oldEncryptionKeys, isPasswordProtected) ==
  /\ lab.op = "encrypt"
  /\ lab.out.ok
  /\ lab' = [op |-> "decryptFileName", made |-> lab,
             encryptionKey |-> encryptionKey, isPasswordKey |-> isPasswordKey,
             oldEncryptionKeys |-> oldEncryptionKeys,
             isPasswordProtected |-> isPasswordProtected,
             out |-> decryptData(NewShare("file", <<>>, lab.out.val),
                                 encryptionKey, isPasswordKey,
                                 oldEncryptionKeys, isPasswordProtected,
                                 RoomId)]
  /\ Outside

(* verifyEncryption(envelope, originalData) on the envelope just made, the *)
(* gate of every write of a sealed field; password is the one the field   *)
(* is to be read with                                                      *)
CallVerifyEncryption(originalData, password) ==
  /\ lab.op = "encrypt"
  /\ lab.out.ok
  /\ lab' = [op |-> "verifyEncryption", made |-> lab,
             originalData |-> originalData, password |-> password,
             out |-> verifyEncryption(lab.out.val, originalData)]
  /\ Outside

(* The fields a stored row can hold: a legacy plaintext, and envelopes   *)
(* under a password and under the room-id key, of a word and of a text    *)
(* that has the shape of an envelope                                      *)
Fields ==
  {Hello,
   encrypt(Hello, "pwA", TRUE, Null, 5).val,
   encrypt(Hello, deriveKeyFromRoomId(RoomId), FALSE, Null, 5).val,
   encrypt(Shaped, "pwA", TRUE, Null, 5).val,
   encrypt(Shaped, deriveKeyFromRoomId(RoomId), FALSE, Null, 5).val}

(* Rows that hold a content and a file name, both sealed: the columns are *)
(* independent, and the INSERT policy checks only the room                 *)
BothFields ==
  {NewShare("file", f, g) :
     f \in {encrypt(Hello, "pwA", TRUE, Null, 5).val,
            encrypt(<<>>, "pwA", TRUE, Null, 5).val},
     g \in {encrypt(FileName, "pwA", TRUE, Null, 6).val,
            encrypt(Shaped, "pwA", TRUE, Null, 6).val,
            encrypt(FileName, deriveKeyFromRoomId(RoomId), FALSE, Null, 6).val}}
  \cup {NewShare("file",
                 encrypt(Hello, deriveKeyFromRoomId(RoomId), FALSE, Null, 5).val,
                 encrypt(FileName, deriveKeyFromRoomId(RoomId), FALSE, Null,
                         6).val)}

(* Rows of shares: one field each, and a row with neither content nor     *)
(* file name, which the table allows                                      *)
ShareRows ==
  {NewShare("text", f, <<>>) : f \in Fields}
  \cup {NewShare("file", <<>>, f) : f \in Fields}
  \cup {NewShare("text", <<>>, <<>>)}
  \cup BothFields

(* One promise of a pass of updateRoomSettings on a row, with a store     *)
(* that accepts the update                                                 *)
CallPromise(share, password, oldPassword, wasPasswordProtected, r) ==
  /\ lab.op = "none"
  /\ wasPasswordProtected => oldPassword # Null
  /\ RunsPass(password, wasPasswordProtected, oldPassword)
  /\ lab' = [op |-> "promise", share |-> share, password |-> password,
             oldPassword |-> oldPassword,
             wasPasswordProtected |-> wasPasswordProtected,
             out |-> Promise(share, password, oldPassword,
                             wasPasswordProtected, r),
             sends |-> Sends(password,
                             Promise(share, password, oldPassword,
                                     wasPasswordProtected, r)),
             result |-> Result(password,
                               Promise(share, password, oldPassword,
                                       wasPasswordProtected, r), "ok")]
  /\ Outside

(* Rows of rooms and parameter lists of the RPC *)
RoomRows ==
  {[exists |-> TRUE, password |-> pw, permissions |-> perm,
    expires_at |-> ex, creator_token |-> tok] :
     pw \in {Null, hashPassword("pwA")}, perm \in {"edit", "view"},
     ex \in {Null, "2030-01-01"}, tok \in {Null, "token-c1"}}

RpcParams ==
  {[p_current_password_hash |-> h, p_creator_token |-> tok,
    p_password |-> pw, p_permissions |-> "view", p_expires_at |-> "2031-01-01",
    p_update_password |-> up, p_update_permissions |-> uperm,
    p_update_expires_at |-> uex] :
     h \in {Null, hashPassword("pwA"), hashPassword("pwB")},
     tok \in {Null, "token-c1", "token-c2"},
     pw \in {Null, hashPassword("pwB")},
     up \in BOOLEAN, uperm \in BOOLEAN, uex \in BOOLEAN}

(* select update_room_settings(...) on a row *)
CallUpdateRoomSettings(rm, p) ==
  /\ lab.op = "none"
  /\ lab' = [op |-> "update_room_settings", room |-> rm, params |-> p,
             out |-> update_room_settings(rm, p)]
  /\ Outside

(* select delete_room(p_room_id, p_current_password_hash, p_creator_token) *)
CallDeleteRoom(rm, p) ==
  /\ lab.op = "none"
  /\ lab' = [op |-> "delete_room", room |-> rm, params |-> p,
             out |-> delete_room(rm, p)]
  /\ Outside

NextFunctions ==
  \/ \E data \in Plaintexts, keySource \in KeySources,
        isPasswordKey \in BOOLEAN, roomId \in {Null, RoomId}, r \in Draws :
       CallEncrypt(data, keySource, isPasswordKey, roomId, r)
  \/ \E keySource \in KeySources, isPasswordKey \in BOOLEAN :
       CallDecrypt(keySource, isPasswordKey)
  \/ \E data \in Samples : CallIsEncrypted(data)
  \/ \E data \in Samples, keySource \in KeySources, isPasswordKey \in BOOLEAN :
       CallDecryptText(data, keySource, isPasswordKey)
  \/ \E encryptionKey \in KeySources, isPasswordKey \in BOOLEAN,
        oldEncryptionKeys \in {<<>>, <<"pwA">>, <<"pwB", "pwA">>},
        isPasswordProtected \in BOOLEAN :
       CallDecryptData(encryptionKey, isPasswordKey, oldEncryptionKeys,
                       isPasswordProtected)
  \/ \E rm \in RoomRows, p \in RpcParams : CallUpdateRoomSettings(rm, p)
  \/ \E rm \in RoomRows, p \in RpcParams :
       /\ ~p.p_update_password /\ ~p.p_update_permissions
       /\ ~p.p_update_expires_at /\ p.p_password = Null
       /\ CallDeleteRoom(rm, p)
  \/ \E originalData \in Plaintexts, password \in Passwords :
       CallVerifyEncryption(originalData, password)
  \/ \E share \in ShareRows, password \in {Null} \cup Passwords,
        oldPassword \in {Null, "pwA"}, wasPasswordProtected \in BOOLEAN,
        r \in Draws :
       CallPromise(share, password, oldPassword, wasPasswordProtected, r)
  \/ \E encryptionKey \in KeySources, isPasswordKey \in BOOLEAN,
        oldEncryptionKeys \in {<<>>, <<"pwA">>, <<"pwB", "pwA">>},
        isPasswordProtected \in BOOLEAN :
       CallDecryptFileName(encryptionKey, isPasswordKey, oldEncryptionKeys,
                           isPasswordProtected)

SpecFunctions == InitFunctions /\ [][NextFunctions]_vars

(***************************************************************************)
(* hooks/useRateLimit.ts: the limiter of JoinRoomForm, with a clock        *)
(***************************************************************************)
(* Bounds: the clock's last millisecond and the number of calls *)
MaxTime == 7
MaxCalls == 5

(* A filter that drops an attempt one millisecond early *)
FilterEarly(attempts, now, windowMs) ==
  LET InWindow(timestamp) == now - timestamp < windowMs - 1
  IN  SelectSeq(attempts, InWindow)

(* attemptsRef.current.filter(timestamp => now - timestamp < windowMs) *)
Filter(attempts, now, windowMs) ==
  LET InWindow(timestamp) == now - timestamp < windowMs
  IN  SelectSeq(attempts, InWindow)

(* checkRateLimit on the filtered attempts: the result and the attempts   *)
(* kept                                                                    *)
Checked(kept, now, maxAttempts) ==
  IF Len(kept) >= maxAttempts
  THEN [result |-> FALSE, attempts |-> kept]
  ELSE [result |-> TRUE, attempts |-> Append(kept, now)]

checkRateLimit(attempts, now, maxAttempts, windowMs) ==
  Checked(Filter(attempts, now, windowMs), now, maxAttempts)

(* useRateLimit(options): attemptsRef starts empty; granted lists the     *)
(* times of the calls that returned true since the last reset              *)
InitRateLimit ==
  /\ room = NoRoom
  /\ shares = <<>>
  /\ view = [c \in Clients |-> InitialView]
  /\ storage = [c \in Clients |-> InitialStorage]
  /\ task = [c \in Clients |-> Idle]
  /\ notify = [c \in Clients |-> FALSE]
  /\ entropy = 0
  /\ updates = 0
  /\ faults = 0
  /\ last = [op |-> "init"]
  /\ \E maxAttempts \in {1, 2}, windowMs \in {2, 3} :
       lab = [op |-> "useRateLimit", maxAttempts |-> maxAttempts,
              windowMs |-> windowMs, now |-> 0, attempts |-> <<>>,
              granted |-> <<>>, calls |-> 0, did |-> "init",
              result |-> TRUE, before |-> <<>>, fresh |-> TRUE,
              wasFresh |-> FALSE]

(* Date.now() moves on *)
Tick ==
  /\ lab.now < MaxTime
  /\ lab' = [lab EXCEPT !.now = @ + 1, !.did = "tick"]
  /\ Outside

(* handleJoin: if (!checkRateLimit()) return *)
CallCheckRateLimit ==
  /\ lab.calls < MaxCalls
  /\ LET r == checkRateLimit(lab.attempts, lab.now, lab.maxAttempts,
                             lab.windowMs)
     IN  lab' = [lab EXCEPT
                   !.attempts = r.attempts,
                   !.granted = IF r.result THEN Append(@, lab.now) ELSE @,
                   !.calls = @ + 1, !.did = "check", !.result = r.result,
                   !.before = lab.attempts, !.fresh = FALSE,
                   !.wasFresh = lab.fresh]
  /\ Outside

(* reset() *)
CallReset ==
  /\ lab.did # "reset"
  /\ lab.attempts # <<>>
  /\ lab' = [lab EXCEPT !.attempts = <<>>, !.granted = <<>>,
                        !.did = "reset", !.fresh = TRUE]
  /\ Outside

NextRateLimit ==
  \/ Tick
  \/ CallCheckRateLimit
  \/ CallReset

SpecRateLimit == InitRateLimit /\ [][NextRateLimit]_vars

(***************************************************************************)
(* FileUpload (part_008): the size limits, with sizes in megabytes.  The   *)
(* file_size column of the room's file rows is lab.files; every client's   *)
(* component holds its own totalFileSize                                   *)
(***************************************************************************)
MAX_TOTAL_FILE_SIZE == 20
MAX_FILE_SIZE == 10

(* Bound: the files a room is given *)
MaxFiles == 3

(* The sizes of the files a user picks *)
FileSizes == {1, 4, 10, 11}

(* data.reduce((sum, share) => sum + (share.file_size || 0), 0) *)
RECURSIVE reduce(_)
reduce(data) == IF data = <<>> THEN 0 ELSE Head(data) + reduce(Tail(data))

InitUpload ==
  /\ room = NoRoom
  /\ shares = <<>>
  /\ view = [c \in Clients |-> InitialView]
  /\ storage = [c \in Clients |-> InitialStorage]
  /\ task = [c \in Clients |-> Idle]
  /\ notify = [c \in Clients |-> FALSE]
  /\ entropy = 0
  /\ updates = 0
  /\ faults = 0
  /\ last = [op |-> "init"]
  /\ lab = [op |-> "FileUpload", files |-> <<>>,
            totalFileSize |-> [c \in Clients |-> 0],
            did |-> "init", who |-> "c1", size |-> 0, res |-> "none"]

(* The effect on [roomId, refreshTrigger]: fetchTotalFileSize *)
fetchTotalFileSize(c) ==
  /\ lab.totalFileSize[c] # reduce(lab.files)
  /\ lab' = [lab EXCEPT !.totalFileSize[c] = reduce(lab.files),
                        !.did = "fetch", !.who = c, !.size = 0,
                        !.res = "none"]
  /\ Outside

(* handleFileUpload: the size checks against the component's              *)
(* totalFileSize, the insert of the share, and the refetch that ends it    *)
CheckedUpload(c, size) ==
  /\ Len(lab.files) < MaxFiles
  /\ IF size > MAX_FILE_SIZE THEN
       lab' = [lab EXCEPT !.did = "upload", !.who = c, !.size = size,
                          !.res = "file-too-large"]
     ELSE IF lab.totalFileSize[c] + size > MAX_TOTAL_FILE_SIZE THEN
       lab' = [lab EXCEPT !.did = "upload", !.who = c, !.size = size,
                          !.res = "total-exceeded"]
     ELSE
       lab' = [lab EXCEPT !.files = Append(@, size),
                          !.totalFileSize[c] = reduce(Append(lab.files, size)),
                          !.did = "upload", !.who = c, !.size = size,
                          !.res = "inserted"]
  /\ Outside

NextUpload ==
  \/ \E c \in Clients : fetchTotalFileSize(c)
  \/ \E c \in Clients, size \in FileSizes : CheckedUpload(c, size)

SpecUpload == InitUpload /\ [][NextUpload]_vars
(***************************************************************************)
(* Properties                                                              *)
(***************************************************************************)
(* What a field holds when read with the keys a pass starts from *)
OpensWith(data, keySource, isPasswordKey) ==
  decrypt(data, keySource, isPasswordKey) # data

(* C1: after any sequence of item creations and settings updates, every    *)
(* stored item's non-empty content and file_name is classified as          *)
(* ciphertext by isEncrypted; a removal never writes decrypted plaintext.  *)
C1_StoredFieldsAreEnvelopes ==
  \A i \in 1..Len(shares) :
    /\ shares[i].content # <<>> => isEncrypted(shares[i].content)
    /\ shares[i].file_name # <<>> => isEncrypted(shares[i].file_name)

(* A removal pass has just replaced a sealed content by its plaintext *)
C1_PlaintextWritten ==
  /\ last.op = "item"
  /\ last.upd.password = Null
  /\ last.sent /\ last.outcome = "ok" /\ last.allowed
  /\ isEncrypted(last.before.content)
  /\ ~isEncrypted(shares[last.i].content)

(* C2: in a password change, an item whose ciphertext content does not     *)
(* decrypt under the old password is not written (its stored envelope is   *)
(* its pre-pass value) and is not counted as a success.                    *)
C2_UndecryptableItemUntouched ==
  ( /\ last.op = "item"
    /\ last.upd.password \in Passwords
    /\ last.wasPasswordProtected
    /\ isEncrypted(last.before.content)
    /\ ~OpensWith(last.before.content, last.oldPassword, TRUE) )
  => /\ ~last.sent
     /\ last.res = "null"
     /\ shares[last.i] = last.before

(* A change pass has just sealed an envelope it could not open inside a    *)
(* new envelope and stored it                                              *)
C2_EnvelopeWrapped ==
  /\ last.op = "item"
  /\ last.upd.password \in Passwords
  /\ last.wasPasswordProtected
  /\ isEncrypted(last.before.content)
  /\ ~OpensWith(last.before.content, last.oldPassword, TRUE)
  /\ last.res = "id"
  /\ shares[last.i].content # last.before.content
  /\ decrypt(shares[last.i].content, trim(last.upd.password), TRUE)
       = last.before.content

(* C3: when a password is set on a room that had none, every item whose    *)
(* content was sealed under the room-id key is replaced in the store by an *)
(* envelope sealed under the new password, and resolving it with the new   *)
(* password alone returns the original plaintext (a write the network      *)
(* failed is left aside).                                                  *)
C3_SetPasswordRekeys ==
  ( /\ last.op = "item"
    /\ last.upd.password \in Passwords
    /\ ~last.wasPasswordProtected
    /\ last.outcome = "ok"
    /\ OpensWith(last.before.content, deriveKeyFromRoomId(RoomId), FALSE) )
  => /\ Len(split(shares[last.i].content)) = 3
     /\ decryptData(shares[last.i], trim(last.upd.password), TRUE, <<>>,
                    TRUE, RoomId)
          = decrypt(last.before.content, deriveKeyFromRoomId(RoomId), FALSE)

(* The pass has re-keyed a room-id item to the new password *)
C3_Rekeyed ==
  /\ last.op = "item"
  /\ last.upd.password \in Passwords
  /\ ~last.wasPasswordProtected
  /\ OpensWith(last.before.content, deriveKeyFromRoomId(RoomId), FALSE)
  /\ OpensWith(shares[last.i].content, trim(last.upd.password), TRUE)

C5_RoundTrip ==
  ( /\ lab.op = "decrypt"
    /\ lab.made.keySource # Null
    /\ lab.keySource = lab.made.keySource
    /\ lab.isPasswordKey = lab.made.isPasswordKey )
  => lab.out = lab.made.data

(* An envelope-shaped text sealed under a password has been opened *)
C5_Opened ==
  /\ lab.op = "decrypt"
  /\ lab.made.data = Shaped
  /\ lab.made.keySource = "pwA" /\ lab.made.isPasswordKey
  /\ lab.keySource = "pwA" /\ lab.isPasswordKey
  /\ lab.out = Shaped

(* The candidates the content branch of the resolver tries, in order *)
C6_Candidates ==
  ContentKeys(CurrentAndOld(lab.encryptionKey, lab.isPasswordKey,
                            lab.oldEncryptionKeys),
              lab.isPasswordProtected, RoomId)

C6_OnlyLastOpens ==
  /\ Len(C6_Candidates) >= 2
  /\ \A i \in 1..Len(C6_Candidates) :
       OpensWith(lab.made.out.val, C6_Candidates[i].key,
                 C6_Candidates[i].isPasswordKey)
         <=> i = Len(C6_Candidates)

(* C6: for an envelope and a candidate list in which only the last         *)
(* candidate decrypts it, the resolver returns that candidate's plaintext, *)
(* and never the envelope a failed attempt returned.                       *)
C6_LastCandidateResolves ==
  (lab.op = "decryptData" /\ C6_OnlyLastOpens)
  => /\ lab.out = lab.made.data
     /\ lab.out # lab.made.out.val

(* The resolver has returned the plaintext of the last candidate *)
C6_Resolved ==
  /\ lab.op = "decryptData"
  /\ C6_OnlyLastOpens
  /\ lab.made.data = Hello
  /\ lab.out = Hello

C8_WrongHashRejected ==
  ( /\ lab.op = "update_room_settings"
    /\ lab.room.password # Null
    /\ lab.params.p_current_password_hash # lab.room.password )
  => /\ ~lab.out.success
     /\ lab.out.room.password = lab.room.password
     /\ lab.out.room.permissions = lab.room.permissions
     /\ lab.out.room.expires_at = lab.room.expires_at

(* A call with another password's hash that asks for every change *)
C8_Rejected ==
  /\ lab.op = "update_room_settings"
  /\ lab.room.password = hashPassword("pwA")
  /\ lab.params.p_current_password_hash = hashPassword("pwB")
  /\ lab.params.p_update_password
  /\ lab.params.p_update_permissions
  /\ lab.params.p_update_expires_at
  /\ ~lab.out.success

(* C9: every envelope encrypt produces is classified as ciphertext; a      *)
(* string with a colon of which some segment is short or has a non-base64  *)
(* character is not.                                                       *)
C9_EnvelopesClassified ==
  /\ (lab.op = "encrypt" /\ lab.out.ok) => isEncrypted(lab.out.val)
  /\ ( /\ lab.op = "isEncrypted"
       /\ includes(lab.data, ":")
       /\ \E i \in 1..Len(split(lab.data)) :
            \/ StrLen(split(lab.data)[i]) < 10
            \/ ~base64Pattern(split(lab.data)[i]) )
     => ~lab.out

(* The shortest envelope: the empty plaintext under a raw key *)
C9_ShortestEnvelope ==
  /\ lab.op = "encrypt"
  /\ lab.data = <<>>
  /\ ~lab.isPasswordKey
  /\ lab.out.ok
  /\ StrLen(lab.out.val) = 41

(* C10: isEncrypted(s) is true exactly when s contains ':', has 2 or 3     *)
(* parts, every part has at least 10 characters, all of the base64         *)
(* alphabet, and the parts together have at least 30 characters.           *)
C10_ClassifierExact ==
  lab.op = "isEncrypted"
  => ( lab.out
       <=> /\ includes(lab.data, ":")
           /\ Len(split(lab.data)) \in {2, 3}
           /\ \A i \in 1..Len(split(lab.data)) :
                /\ StrLen(split(lab.data)[i]) >= 10
                /\ base64Pattern(split(lab.data)[i])
           /\ StrLen(lab.data) - (Len(split(lab.data)) - 1) >= 30 )

(* Two parts of 10 and 20 characters: 30 without the separator *)
C10_AtThreshold ==
  /\ lab.op = "isEncrypted"
  /\ lab.data = Word("A", 10) \o Colon \o Word("B", 20)
  /\ lab.out

C12_RpcFollowsFailedPass ==
  /\ ( /\ last.op = "settings"
       /\ last.upd.password # Undefined
       /\ last.outcome = "error" )
     => task[last.who].pc = "rpc"
  /\ last.op = "item"
     => \/ task[last.who].pc = "rpc"
        \/ task[last.who].pc = "items" /\ task[last.who].pending # {}

(* A removal whose fetch failed has ended without its RPC: the room keeps *)
(* its password                                                            *)
C12_RemovalAbandoned ==
  /\ last.op = "settings"
  /\ last.upd.password = Null
  /\ last.outcome = "error"
  /\ last.res = "fetch-error"
  /\ task[last.who].pc = "idle"
  /\ room.password # Null

(* What the Room component of client c shows for a share *)
Shown(c, share) ==
  decryptData(share, view[c].encryptionKey, view[c].isPasswordKey,
              view[c].oldEncryptionKeys, view[c].room.password # Null, RoomId)

(* C13: after a password change, an item still sealed under the superseded *)
(* password remains readable by the client that now holds the new          *)
(* password: the superseded password is kept as a resolver candidate.      *)
C13_SupersededStillReadable ==
  ( /\ last.op = "settled"
    /\ last.upd.password \in Passwords
    /\ last.oldPassword # Null
    /\ last.oldPassword # trim(last.upd.password) )
  => \A i \in 1..Len(shares) :
       OpensWith(shares[i].content, last.oldPassword, TRUE)
       => /\ find(CurrentAndOld(view[last.who].encryptionKey,
                                view[last.who].isPasswordKey,
                                view[last.who].oldEncryptionKeys),
                  last.oldPassword)
          /\ Shown(last.who, shares[i])
               = decrypt(shares[i].content, last.oldPassword, TRUE)

(* The change is done, an item is still sealed under the superseded       *)
(* password, and the client that made the change cannot read it           *)
C13_SupersededUnreadable ==
  /\ last.op = "settled"
  /\ last.upd.password = "pwB"
  /\ last.oldPassword = "pwA"
  /\ view[last.who].encryptionKey = "pwB"
  /\ view[last.who].oldEncryptionKeys = <<>>
  /\ \E i \in 1..Len(shares) :
       /\ OpensWith(shares[i].content, "pwA", TRUE)
       /\ Shown(last.who, shares[i]) = Unable("verify the password")

(* The candidates the claim names, in its order: the current key, the     *)
(* superseded passwords, and in a room without password the room-id key   *)
C14_Named ==
  CurrentAndOld(lab.encryptionKey, lab.isPasswordKey, lab.oldEncryptionKeys)
  \o (IF lab.isPasswordProtected THEN <<>>
      ELSE <<Candidate(deriveKeyFromRoomId(RoomId), FALSE)>>)

(* The current key is used the way the Room component sets it: a password *)
(* as a password, a raw key as a raw key                                   *)
C14_FlagFitsKey ==
  lab.encryptionKey # Null
  => (lab.isPasswordKey <=> lab.encryptionKey \in Passwords)

(* C14: for every decryptable field (content, and file_name of a file      *)
(* item) the resolver tries the current key, then the superseded           *)
(* passwords, then in a room without password the room-id key, and gives   *)
(* up only after all of them: when one of them opens the envelope, the     *)
(* resolver returns the plaintext (plaintexts that look like an envelope   *)
(* are left aside).                                                        *)
C14_EveryCandidateTried ==
  ( /\ lab.op \in {"decryptData", "decryptFileName"}
    /\ C14_FlagFitsKey
    /\ ~isEncrypted(lab.made.data)
    /\ \E j \in 1..Len(C14_Named) :
         OpensWith(lab.made.out.val, C14_Named[j].key,
                   C14_Named[j].isPasswordKey) )
  => lab.out = lab.made.data

(* In a room without password, a file name sealed under the room-id key   *)
(* is shown as its envelope to a client that holds another key            *)
C14_RoomIdKeyNotTried ==
  /\ lab.op = "decryptFileName"
  /\ ~lab.isPasswordProtected
  /\ lab.encryptionKey = LegacyKey /\ ~lab.isPasswordKey
  /\ lab.oldEncryptionKeys = <<>>
  /\ lab.made.data = Hello
  /\ OpensWith(lab.made.out.val, deriveKeyFromRoomId(RoomId), FALSE)
  /\ lab.out = lab.made.out.val

(* The key the envelope of the examined call was sealed under *)
C15_SealedUnder ==
  IF lab.made.keySource = Null THEN deriveKeyFromRoomId(lab.made.roomId)
  ELSE lab.made.keySource

(* C15: decrypt never throws: with a null key source, an input whose       *)
(* number of parts does not match the mode, parts that cannot be decoded,  *)
(* or a failed authentication, it returns its input unchanged.             *)
C15_DecryptReturnsInput ==
  /\ lab.op = "decryptText" => lab.out = lab.data
  /\ ( /\ lab.op = "decrypt"
       /\ \/ lab.keySource = Null
          \/ lab.isPasswordKey # lab.made.isPasswordKey
          \/ lab.keySource # C15_SealedUnder )
     => lab.out = lab.made.out.val

(* An envelope sealed under one password, given back by decrypt under     *)
(* another                                                                 *)
C15_AuthenticationFailed ==
  /\ lab.op = "decrypt"
  /\ lab.made.keySource = "pwA" /\ lab.made.isPasswordKey
  /\ lab.keySource = "pwB" /\ lab.isPasswordKey
  /\ lab.out = lab.made.out.val

(* The key the fields of a row are read with before the pass *)
PreRotationOpens(data) ==
  IF lab.wasPasswordProtected THEN OpensWith(data, lab.oldPassword, TRUE)
  ELSE OpensWith(data, deriveKeyFromRoomId(RoomId), FALSE)

(* A field of the row is an envelope the pre-rotation key does not open *)
C16_Undecryptable ==
  \/ isEncrypted(lab.share.content) /\ ~PreRotationOpens(lab.share.content)
  \/ isEncrypted(lab.share.file_name)
       /\ ~PreRotationOpens(lab.share.file_name)

C17_UndecryptableNameAborts ==
  ( /\ lab.op = "promise"
    /\ lab.share.type = "file"
    /\ isEncrypted(lab.share.file_name)
    /\ ~PreRotationOpens(lab.share.file_name) )
  => /\ "file_name" \notin lab.out.updateData.keys
     /\ ~lab.sends
     /\ lab.result = "null"

(* A change pass has sealed a file name it could not open inside a new    *)
(* envelope, sent it and counted the item as a success                    *)
C17_NameWrapped ==
  /\ lab.op = "promise"
  /\ lab.password = "pwB" /\ lab.oldPassword = "pwA"
  /\ lab.wasPasswordProtected
  /\ lab.share.type = "file"
  /\ isEncrypted(lab.share.file_name)
  /\ ~PreRotationOpens(lab.share.file_name)
  /\ lab.sends /\ lab.result = "id"
  /\ "file_name" \in lab.out.updateData.keys
  /\ decrypt(lab.out.updateData.file_name, "pwB", TRUE) = lab.share.file_name

(* C18: a failure of one item's update does not stop the processing of     *)
(* any other item of the pass, and the aggregate is reported, and the      *)
(* handler goes on, only after every item of the pass has completed.       *)
C18_EveryItemCompletes ==
  \A c \in Clients :
    /\ task[c].pc = "items"
       => /\ task[c].pending # {}
          /\ task[c].pending
               = {i \in 1..Len(task[c].results) : task[c].results[i] = "?"}
    /\ task[c].pc = "rpc"
       => \A i \in 1..Len(task[c].results) :
            task[c].results[i] \in {"id", "null"}

(* The second item has been updated after the first one failed *)
C18_ContinuedAfterFailure ==
  /\ last.op = "item"
  /\ last.i = 2
  /\ last.res = "id" /\ last.sent
  /\ task[last.who].pc = "rpc"
  /\ task[last.who].results = <<"null", "id">>

(* C19: an item inserted into the room after a pass has fetched the room's *)
(* item list is neither read nor written by that pass: a step of the pass  *)
(* works on a fetched row and leaves every later row as it is.             *)
C19_LaterItemsUntouched ==
  [][ last'.op = "item"
      => /\ last'.i <= Len(task[last'.who].allShares)
         /\ last'.before = task[last'.who].allShares[last'.i]
         /\ Len(shares') = Len(shares)
         /\ \A j \in 1..Len(shares) :
              j > Len(task[last'.who].allShares) => shares'[j] = shares[j]
    ]_vars

(* The pass has written a fetched item while the room holds an item that  *)
(* was inserted after the fetch                                            *)
C19_InsertedDuringPass ==
  /\ last.op = "item"
  /\ last.sent /\ last.outcome = "ok" /\ last.allowed
  /\ Len(shares) > Len(task[last.who].allShares)
  /\ shares[last.i] # last.before

(* C20: two password-change requests on the same room are not mutually     *)
(* excluded.  The store applies the update of a pass whatever another      *)
(* pass has written to the row since the fetch (last write wins), and an   *)
(* interleaving is reachable after which an item written by one pass has   *)
(* been overwritten by the other and is sealed under a password that is    *)
(* not the room's final password.                                          *)
C20_LastWriteWins ==
  ( /\ last.op = "item"
    /\ last.sent /\ last.outcome = "ok" /\ last.allowed )
  => /\ "content" \in last.updateData.keys
          => shares[last.i].content = last.updateData.content
     /\ "file_name" \in last.updateData.keys
          => shares[last.i].file_name = last.updateData.file_name

(* Both requests have finished; the pass of the one that finished last    *)
(* wrote the item, its RPC set the room's password, and the item is       *)
(* sealed under the password of the other request                         *)
C20_Clobbered ==
  /\ \A c \in Clients : task[c].pc = "idle"
  /\ updates = 2
  /\ last.op = "settled"
  /\ last.results = <<"id">>
  /\ room.password = hashPassword(trim(last.upd.password))
  /\ ~OpensWith(shares[1].content, trim(last.upd.password), TRUE)
  /\ \E other \in Passwords :
       /\ other # trim(last.upd.password)
       /\ OpensWith(shares[1].content, other, TRUE)
       /\ decrypt(shares[1].content, other, TRUE) = Hello

C22_RawPasswordNotPersisted ==
  /\ \A c \in Clients : storage[c].local_room_password = Null
  /\ room.password \in {Null} \cup {hashPassword(pw) : pw \in Passwords}

(* A password set in the settings is in localStorage, while the room's    *)
(* row holds its hash                                                      *)
C22_PersistedLocally ==
  /\ last.op = "settled"
  /\ last.upd.password = "pwB"
  /\ storage[last.who].local_room_password = "pwB"
  /\ storage[last.who].room_password = "pwB"
  /\ room.password = hashPassword("pwB")

(* C23: for a room that has no password but has a creator_token,           *)
(* update_room_settings and delete_room succeed only when the caller       *)
(* supplies the matching creator_token; a call with a missing or different *)
(* token changes nothing.                                                  *)
C23_CreatorTokenRequired ==
  ( /\ lab.op \in {"update_room_settings", "delete_room"}
    /\ lab.room.password = Null
    /\ lab.room.creator_token # Null
    /\ lab.params.p_creator_token # lab.room.creator_token )
  => /\ ~lab.out.success
     /\ lab.out.room = lab.room

(* A room with a creator token has been deleted by a call that gave none *)
C23_DeletedWithoutToken ==
  /\ lab.op = "delete_room"
  /\ lab.room.password = Null
  /\ lab.room.creator_token = "token-c1"
  /\ lab.params.p_creator_token = Null
  /\ lab.out.success
  /\ ~lab.out.room.exists

(* C24: if update_room_settings rejects or errors for a password set or    *)
(* change, the request has had no effect: no stored item has been re-keyed *)
(* by it and the client's cached secret (the session-stored password and   *)
(* the active encryption key) is what it was before the request.           *)
C24_RejectedHasNoEffect ==
  (last.op = "rejected" /\ last.upd.password \in Passwords)
  => /\ \A i \in 1..Len(last.allShares) : shares[i] = last.allShares[i]
     /\ storage[last.who].room_password = last.oldPassword
     /\ view[last.who].encryptionKey = last.closureKey

(* The RPC of a password change has failed after the pass had re-keyed an *)
(* item and the client had taken the new password                         *)
C24_RekeyedThenRejected ==
  /\ last.op = "rejected"
  /\ last.upd.password = "pwB"
  /\ last.oldPassword = "pwA"
  /\ room.password = hashPassword("pwA")
  /\ last.results # <<>>
  /\ last.results[1] = "id"
  /\ OpensWith(last.allShares[1].content, "pwA", TRUE)
  /\ ~OpensWith(shares[1].content, "pwA", TRUE)
  /\ OpensWith(shares[1].content, "pwB", TRUE)
  /\ storage[last.who].room_password = "pwB"
  /\ view[last.who].encryptionKey = "pwB"

(* What the pre-rotation key yields from a stored field *)
C25_Plaintext(data) ==
  IF lab.wasPasswordProtected THEN decrypt(data, lab.oldPassword, TRUE)
  ELSE decrypt(data, deriveKeyFromRoomId(RoomId), FALSE)

(* A written field opens under the new password to the old field's        *)
(* plaintext, and not to the old envelope                                  *)
C25_Preserved(old, new) ==
  /\ decrypt(new, trim(lab.password), TRUE) = C25_Plaintext(old)
  /\ isEncrypted(old) => decrypt(new, trim(lab.password), TRUE) # old

(* C25: a rotation pass preserves plaintext: for every item it writes,     *)
(* decrypting the new stored value once with the post-rotation key yields  *)
(* exactly the plaintext that the pre-rotation key yielded from the old    *)
(* stored value; no item becomes an envelope wrapped around another        *)
(* envelope, also when a password-protected room contains a 2-part         *)
(* (key-based) envelope or an item sealed under a different key.           *)
C25_PlaintextPreserved ==
  (lab.op = "promise" /\ lab.password \in Passwords /\ lab.sends)
  => /\ "content" \in lab.out.updateData.keys
          => C25_Preserved(lab.share.content, lab.out.updateData.content)
     /\ "file_name" \in lab.out.updateData.keys
          => C25_Preserved(lab.share.file_name, lab.out.updateData.file_name)

(* A change pass in a password-protected room has sealed a 2-part         *)
(* envelope of the room-id key inside an envelope of the new password      *)
C25_EnvelopeInEnvelope ==
  /\ lab.op = "promise"
  /\ lab.password = "pwB" /\ lab.oldPassword = "pwA"
  /\ lab.wasPasswordProtected
  /\ lab.share.type = "text"
  /\ Len(split(lab.share.content)) = 2
  /\ OpensWith(lab.share.content, deriveKeyFromRoomId(RoomId), FALSE)
  /\ lab.sends /\ lab.result = "id"
  /\ decrypt(lab.out.updateData.content, "pwB", TRUE) = lab.share.content

(* C26: every item created in a password-protected room is sealed under    *)
(* the room's current password, also when another client changed the       *)
(* room's password after the creating client had been verified (a client   *)
(* whose cached password no longer matches the room's stored hash creates  *)
(* no item until it is re-verified).                                       *)
C26_SealedUnderCurrentPassword ==
  (last.op = "share" /\ last.res = "inserted" /\ room.password # Null)
  => \E pw \in Passwords :
       /\ room.password = hashPassword(pw)
       /\ OpensWith(shares[Len(shares)].content, pw, TRUE)

(* A client has created an item under the password it was verified with,  *)
(* after its reload had found that the room's hash is another one and had  *)
(* dropped the cached password                                             *)
C26_SealedUnderStalePassword ==
  /\ last.op = "share" /\ last.res = "inserted"
  /\ room.password = hashPassword("pwB")
  /\ view[last.who].room.password = hashPassword("pwB")
  /\ view[last.who].showPasswordDialog
  /\ view[last.who].isPasswordVerified
  /\ storage[last.who].room_password = Null
  /\ view[last.who].encryptionKey = "pwA"
  /\ OpensWith(shares[Len(shares)].content, "pwA", TRUE)
  /\ ~OpensWith(shares[Len(shares)].content, "pwB", TRUE)

(* A field is empty or an envelope the password opens *)
C27_Under(data, password) ==
  data = <<>> \/ OpensWith(data, password, TRUE)

(* C27: changing or setting the password of a room whose permissions are   *)
(* 'view' re-keys its items: the store accepts the rotation's per-item     *)
(* updates, so that once the server has accepted the password change every *)
(* pre-existing item (every item the pass reported as updated) is sealed   *)
(* under the new password.                                                 *)
C27_ViewRoomRekeyed ==
  ( /\ last.op = "settled"
    /\ last.upd.password \in Passwords
    /\ room.permissions = "view"
    /\ \A i \in 1..Len(last.results) : last.results[i] = "id" )
  => \A i \in 1..Len(last.results) :
       /\ C27_Under(shares[i].content, trim(last.upd.password))
       /\ C27_Under(shares[i].file_name, trim(last.upd.password))

(* The password of a view-only room has been set, the pass has reported   *)
(* its item as updated, and the item is still sealed under the room-id key *)
C27_ViewRoomNotRekeyed ==
  /\ last.op = "settled"
  /\ last.upd.password = "pwA"
  /\ room.permissions = "view"
  /\ room.password = hashPassword("pwA")
  /\ last.results = <<"id">>
  /\ OpensWith(shares[1].content, deriveKeyFromRoomId(RoomId), FALSE)
  /\ ~OpensWith(shares[1].content, "pwA", TRUE)

(* The candidates the resolver tries for the examined field *)
C28_Tried ==
  IF lab.op = "decryptFileName"
  THEN FileNameKeys(CurrentAndOld(lab.encryptionKey, lab.isPasswordKey,
                                  lab.oldEncryptionKeys),
                    lab.isPasswordProtected, RoomId)
  ELSE ContentKeys(CurrentAndOld(lab.encryptionKey, lab.isPasswordKey,
                                 lab.oldEncryptionKeys),
                   lab.isPasswordProtected, RoomId)

(* C28: the resolver (and the rotation's decrypt-and-verify step) returns  *)
(* the plaintext whenever some candidate key authentically decrypts the    *)
(* envelope, for every plaintext, including a plaintext that itself has    *)
(* the shape of an envelope; the rotation does not fail an item whose      *)
(* content its pre-rotation key opens.                                     *)
C28_AuthenticDecryptionAccepted ==
  /\ ( /\ lab.op \in {"decryptData", "decryptFileName"}
       /\ \E j \in 1..Len(C28_Tried) :
            OpensWith(lab.made.out.val, C28_Tried[j].key,
                      C28_Tried[j].isPasswordKey) )
     => lab.out = lab.made.data
  /\ ( /\ lab.op = "promise"
       /\ isEncrypted(lab.share.content)
       /\ PreRotationOpens(lab.share.content) )
     => lab.out.ok

(* The resolver, holding the password an envelope-shaped text was sealed  *)
(* under, shows the message for a content it cannot decrypt               *)
C28_ShapedPlaintextRejected ==
  /\ lab.op = "decryptData"
  /\ lab.made.data = Shaped
  /\ lab.made.keySource = "pwA" /\ lab.made.isPasswordKey
  /\ lab.encryptionKey = "pwA" /\ lab.isPasswordKey
  /\ lab.isPasswordProtected
  /\ decrypt(lab.made.out.val, "pwA", TRUE) = Shaped
  /\ lab.out = Unable("verify the password")

(* The calls that returned true in the windowMs milliseconds from t on *)
C29_GrantedIn(t) ==
  {i \in 1..Len(lab.granted) :
     t <= lab.granted[i] /\ lab.granted[i] < t + lab.windowMs}

(* C29: for the join rate limiter, within any time window of windowMs      *)
(* milliseconds at most maxAttempts calls of checkRateLimit return true,   *)
(* and a call that is rejected is not recorded (it does not extend the     *)
(* lock-out); after reset the next call returns true.                      *)
C29_WindowBounded ==
  /\ \A t \in 0..MaxTime : Cardinality(C29_GrantedIn(t)) <= lab.maxAttempts
  /\ (lab.did = "check" /\ ~lab.result)
       => /\ Len(lab.attempts) <= Len(lab.before)
          /\ \A i \in 1..Len(lab.attempts) :
               lab.attempts[i] \in
                 {lab.before[j] : j \in 1..Len(lab.before)}
  /\ (lab.did = "check" /\ lab.wasFresh) => lab.result

(* A call has been rejected while two attempts of the window are on       *)
(* record, after an earlier attempt had expired                            *)
C29_LockedOut ==
  /\ lab.did = "check"
  /\ ~lab.result
  /\ lab.maxAttempts = 2
  /\ Len(lab.attempts) = 2
  /\ Len(lab.granted) = 3
  /\ lab.attempts = lab.before

(* C30: the total size of the file items stored in a room never exceeds    *)
(* 20 MB and no stored file item exceeds 10 MB, also when several clients  *)
(* upload to the same room concurrently.                                   *)
C30_SizeLimitsHold ==
  /\ reduce(lab.files) <= MAX_TOTAL_FILE_SIZE
  /\ \A i \in 1..Len(lab.files) : lab.files[i] <= MAX_FILE_SIZE

(* A client whose component had not yet seen the other client's files has *)
(* uploaded a file of 10 MB that takes the room to 30 MB                   *)
C30_TotalExceeded ==
  /\ lab.did = "upload"
  /\ lab.res = "inserted"
  /\ lab.size = 10
  /\ reduce(lab.files) = 30
  /\ \A i \in 1..Len(lab.files) : lab.files[i] <= MAX_FILE_SIZE
  /\ lab.totalFileSize[lab.who] = 30
====
